---- MODULE Spec2Model ----
(***************************************************************************)
(* streamctl, src/src/kinesis.rs: the `push` subcommand (stdin lines       *)
(* batched into put_records calls) and the `tail` subcommand (the shard    *)
(* iterator hand-off loop).  One process runs one subcommand, so both      *)
(* share the program counter pc.                                           *)
(***************************************************************************)
EXTENDS Integers, Sequences, FiniteSets, TLC

----------------------------------------------------------------------------
(* Option<T> is a sequence of length at most one.                          *)
None == <<>>

Some(x) == <<x>>

IsSome(o) == Len(o) = 1

Unwrap(o) == o[1]

----------------------------------------------------------------------------
(* Program constants.                                                      *)

\* const ONE_MIB: usize = 1024 * 1024;
ONE_MIB == 1024 * 1024

\* the per-batch byte ceiling of push, `5 * ONE_MIB`
BATCH_BYTES == 5 * ONE_MIB

----------------------------------------------------------------------------
(* Bounds of the model.                                                    *)

\* The record-count ceiling of a batch.  push compares records.len() with
\* the literal 500; the model keeps the comparison and scales the literal,
\* keeping it above 5 so that, as in the program, the byte ceiling can be
\* hit by a batch that is not yet full (5 lines of 1 MiB and one more).
MaxBatchRecords == 6

\* The number of lines standard input delivers at most.
MaxLines == 7

\* The byte lengths of the lines standard input delivers: empty, one byte,
\* exactly the per-record ceiling, one byte more than it.
LineLens == {0, 1, ONE_MIB, ONE_MIB + 1}

\* The number of get_records calls the service answers at most: the last of
\* them returns no next shard iterator, or fails.
MaxPolls == 3

\* The number of records the shard delivers at most, over all polls.
MaxShardRecords == 3

\* The payloads of the records of the shard: no data, zero bytes, the two
\* bytes of U+00E9, a byte that occurs in no UTF-8 text.
RecordData == {None, Some(<<>>), Some(<<195, 169>>), Some(<<255>>)}

----------------------------------------------------------------------------
VARIABLES
    pc,            \* position of the running subcommand
    err,           \* None, or Some(cause) once the subcommand returned Err
    stdout,        \* what println! has written, in order
    \* push
    lines,         \* the lines next_line() has returned so far, in order
    line,          \* the line being processed across the byte-ceiling flush
    num_bytes,     \* push's local num_bytes
    num_records,   \* push's local num_records
    records,       \* push's local records (the pending batch)
    calls,         \* the batches passed to put_records, in call order
    results,       \* the outcome of each returned put_records call, in call order
    \* tail
    shard_iterator_opt,  \* tail's local shard_iterator_opt
    requests,      \* the calls tail has sent to the service, in order
    replies,       \* the results the service has returned, in order
    reply          \* the result tail's outstanding call has returned, if any

pushVars == <<lines, line, num_bytes, num_records, records, calls, results>>

tailVars == <<shard_iterator_opt, requests, replies, reply>>

vars ==
    <<pc, err, stdout, lines, line, num_bytes, num_records, records, calls,
      results, shard_iterator_opt, requests, replies, reply>>

----------------------------------------------------------------------------
(* push                                                                    *)

\* A line of standard input: its ordinal position and its byte length.
Line(ord, len) == [ord |-> ord, len |-> len]

IsOversized_Ge(record_len) == record_len >= ONE_MIB

\* if record_len > ONE_MIB
IsOversized(record_len) == record_len > ONE_MIB

OverByteCeiling_PostCheck(nb, record_len) == nb > BATCH_BYTES

\* if num_bytes + record_len > 5 * ONE_MIB
OverByteCeiling(nb, record_len) == nb + record_len > BATCH_BYTES

BatchIsFull_Gt(recs) == Len(recs) > MaxBatchRecords

\* if records.len() == 500
BatchIsFull(recs) == Len(recs) = MaxBatchRecords

HasPending_Gt1(recs) == Len(recs) > 1

\* if records.len() > 0
HasPending(recs) == Len(recs) > 0

\* println!("Record #{} is larger than 1 MiB, skipping.", num_records)
SkipDiagnostic(n) == [kind |-> "skip", n |-> n]

\* println!("Pushed {} records to stream `{}` in {}s ({} MiB/s).", num_records, ..)
Summary(n) == [kind |-> "summary", n |-> n]

InitPush ==
    /\ pc = "read"
    /\ err = None
    /\ stdout = <<>>
    /\ lines = <<>>
    /\ line = None
    /\ num_bytes = 0
    /\ num_records = 0
    /\ records = <<>>
    /\ calls = <<>>
    /\ results = <<>>
    /\ shard_iterator_opt = None
    /\ requests = <<>>
    /\ replies = <<>>
    /\ reply = None

AppendRecord_Spawns(l) ==
    /\ num_bytes' = num_bytes + l.len
    /\ LET pushed == Append(records, l) IN
         IF BatchIsFull(pushed)
         THEN /\ calls' = Append(calls, pushed)
              /\ records' = <<>>
              /\ pc' = "read"
         ELSE /\ records' = pushed
              /\ calls' = calls
              /\ pc' = "read"

\* Lines 188-204 up to the next await: num_bytes += record_len, the record
\* is pushed, and a full batch is handed to put_records.
AppendRecord(l) ==
    /\ num_bytes' = num_bytes + l.len
    /\ LET pushed == Append(records, l) IN
         IF BatchIsFull(pushed)
         THEN /\ calls' = Append(calls, pushed)
              /\ records' = <<>>
              /\ pc' = "count_flush"
         ELSE /\ records' = pushed
              /\ calls' = calls
              /\ pc' = "read"

\* lines.next_line().await? returns Some(line): lines 172-187 and, when no
\* byte-ceiling flush is needed, on to 188-204.
ReadLine(len) ==
    /\ UNCHANGED tailVars
    /\ pc = "read"
    /\ Len(lines) < MaxLines
    /\ LET l == Line(Len(lines) + 1, len) IN
         /\ lines' = Append(lines, l)
         /\ num_records' = num_records + 1
         /\ IF IsOversized(len)
            THEN /\ stdout' = Append(stdout, SkipDiagnostic(num_records + 1))
                 /\ UNCHANGED <<pc, err, line, num_bytes, records, calls, results>>
            ELSE IF OverByteCeiling(num_bytes, len)
            THEN /\ calls' = Append(calls, records)
                 /\ records' = <<>>
                 /\ line' = Some(l)
                 /\ pc' = "byte_flush"
                 /\ UNCHANGED <<err, stdout, num_bytes, results>>
            ELSE /\ AppendRecord(l)
                 /\ UNCHANGED <<err, stdout, line, results>>

\* lines.next_line().await? returns Err: push returns the error.
ReadError ==
    /\ UNCHANGED tailVars
    /\ pc = "read"
    /\ pc' = "failed"
    /\ err' = Some("read")
    /\ UNCHANGED <<stdout, pushVars>>

ByteFlushOk_DropsLine ==
    /\ UNCHANGED tailVars
    /\ pc = "byte_flush"
    /\ results' = Append(results, "ok")
    /\ pc' = "read"
    /\ line' = None
    /\ UNCHANGED <<err, stdout, lines, num_records, num_bytes, records, calls>>

\* The put_records of lines 181-186 returns Ok: on to lines 188-204.
ByteFlushOk ==
    /\ UNCHANGED tailVars
    /\ pc = "byte_flush"
    /\ results' = Append(results, "ok")
    /\ AppendRecord(Unwrap(line))
    /\ line' = None
    /\ UNCHANGED <<err, stdout, lines, num_records>>

CountFlushOk_NoReset ==
    /\ UNCHANGED tailVars
    /\ pc = "count_flush"
    /\ results' = Append(results, "ok")
    /\ pc' = "read"
    /\ UNCHANGED <<err, stdout, lines, line, num_bytes, num_records, records, calls>>

\* The put_records of lines 197-202 returns Ok: num_bytes = 0, next line.
CountFlushOk ==
    /\ UNCHANGED tailVars
    /\ pc = "count_flush"
    /\ results' = Append(results, "ok")
    /\ num_bytes' = 0
    /\ pc' = "read"
    /\ UNCHANGED <<err, stdout, lines, line, num_records, records, calls>>

\* next_line() returns None: lines 206-213 up to the next await.
EndOfInput ==
    /\ UNCHANGED tailVars
    /\ pc = "read"
    /\ IF HasPending(records)
       THEN /\ calls' = Append(calls, records)
            /\ records' = <<>>
            /\ pc' = "final_flush"
            /\ UNCHANGED <<err, stdout, lines, line, num_bytes, num_records, results>>
       ELSE /\ stdout' = Append(stdout, Summary(num_records))
            /\ pc' = "done"
            /\ UNCHANGED <<err, pushVars>>

\* The put_records of line 207 returns Ok: the summary, then Ok(()).
FinalFlushOk ==
    /\ UNCHANGED tailVars
    /\ pc = "final_flush"
    /\ results' = Append(results, "ok")
    /\ stdout' = Append(stdout, Summary(num_records))
    /\ pc' = "done"
    /\ UNCHANGED <<err, lines, line, num_bytes, num_records, records, calls>>

PutRecordsErr_Swallowed ==
    /\ UNCHANGED tailVars
    /\ pc \in {"byte_flush", "count_flush", "final_flush"}
    /\ results' = Append(results, "err")
    /\ IF pc = "byte_flush"
       THEN AppendRecord(Unwrap(line)) /\ line' = None /\ stdout' = stdout
       ELSE IF pc = "count_flush"
       THEN /\ num_bytes' = 0
            /\ pc' = "read"
            /\ UNCHANGED <<stdout, line, records, calls>>
       ELSE /\ stdout' = Append(stdout, Summary(num_records))
            /\ pc' = "done"
            /\ UNCHANGED <<line, num_bytes, records, calls>>
    /\ UNCHANGED <<err, lines, num_records>>

\* Any put_records returns Err: `.await?` makes push return it.
PutRecordsErr ==
    /\ UNCHANGED tailVars
    /\ pc \in {"byte_flush", "count_flush", "final_flush"}
    /\ pc' = "failed"
    /\ err' = Some("put_records")
    /\ results' = Append(results, "err")
    /\ UNCHANGED <<stdout, lines, line, num_bytes, num_records, records, calls>>

NextPush ==
    \/ \E len \in LineLens : ReadLine(len)
    \/ ReadError
    \/ ByteFlushOk
    \/ CountFlushOk
    \/ EndOfInput
    \/ FinalFlushOk
    \/ PutRecordsErr

SpecPush == InitPush /\ [][NextPush]_vars

----------------------------------------------------------------------------
(* Properties of push.                                                     *)

\* The concatenation of a sequence of batches.
RECURSIVE Flatten(_)
Flatten(batches) ==
    IF batches = <<>> THEN <<>> ELSE Head(batches) \o Flatten(Tail(batches))

\* The cumulative payload size of a batch.
RECURSIVE PayloadSize(_)
PayloadSize(batch) ==
    IF batch = <<>> THEN 0 ELSE Head(batch).len + PayloadSize(Tail(batch))

\* The input lines of at most 1 MiB, in input order.
AcceptedLines == SelectSeq(lines, LAMBDA l : l.len <= ONE_MIB)

\* s cut into consecutive chunks of n elements, the last one shorter.
RECURSIVE Chunks(_, _)
Chunks(s, n) ==
    IF s = <<>> THEN <<>>
    ELSE IF Len(s) <= n THEN <<s>>
    ELSE <<SubSeq(s, 1, n)>> \o Chunks(SubSeq(s, n + 1, Len(s)), n)

AllWritesOk == \A i \in DOMAIN results : results[i] = "ok"

\* C1: when push has returned Ok (every write call succeeded), the records
\* of the dispatched batches, concatenated in dispatch order, are exactly
\* the input lines of at most 1 MiB, in input order.
C1_BatchesAreAcceptedLines ==
    (pc = "done" /\ AllWritesOk) => Flatten(calls) = AcceptedLines

\* push returned Ok after several batches, with a skipped line among the
\* input and a line of exactly 1 MiB among the dispatched records.
C1_Witness ==
    /\ pc = "done"
    /\ Len(calls) >= 2
    /\ Len(AcceptedLines) < Len(lines)
    /\ \E i \in DOMAIN lines : lines[i].len = ONE_MIB
    /\ Flatten(calls) = AcceptedLines

\* C2: every batch passed to put_records holds at most the ceiling of
\* records and at most 5 MiB of payload.
C2_BatchWithinCeilings ==
    \A i \in DOMAIN calls :
        /\ Len(calls[i]) <= MaxBatchRecords
        /\ PayloadSize(calls[i]) <= BATCH_BYTES

\* A batch of exactly 5 MiB, not yet full, has been dispatched by the
\* byte-ceiling flush, and another batch after it.
C2_Witness ==
    /\ Len(calls) >= 2
    /\ PayloadSize(calls[1]) = BATCH_BYTES
    /\ Len(calls[1]) < MaxBatchRecords

\* C3 as claimed: an accepted line is preceded by a flush exactly when the
\* payload of the pending batch plus the line exceeds 5 MiB, and after the
\* flush the size tracked for the new batch is the size of its records.
C3_FlushIffOverCeiling ==
    [][/\ (pc = "read" /\ Len(lines') = Len(lines) + 1
               /\ lines'[Len(lines')].len <= ONE_MIB)
          => ((pc' = "byte_flush")
                <=> PayloadSize(records) + lines'[Len(lines')].len > BATCH_BYTES)
       /\ (pc = "byte_flush" /\ pc' = "read")
          => (num_bytes' = PayloadSize(records'))]_vars

\* C4: the pending batch never holds the ceiling of records when the next
\* line is read, and when no chunk of ceiling-many accepted lines exceeds
\* 5 MiB the dispatched batches are those chunks, the last one partial.
C4_CountChunks ==
    /\ Len(records) < MaxBatchRecords
    /\ (pc = "done" /\ AllWritesOk
            /\ \A i \in DOMAIN Chunks(AcceptedLines, MaxBatchRecords) :
                 PayloadSize(Chunks(AcceptedLines, MaxBatchRecords)[i]) <= BATCH_BYTES)
       => calls = Chunks(AcceptedLines, MaxBatchRecords)

\* One line more than the ceiling, all of one byte: two batches, the
\* ceiling and 1.
C4_Witness ==
    /\ pc = "done"
    /\ Len(lines) = MaxBatchRecords + 1
    /\ \A i \in DOMAIN lines : lines[i].len = 1
    /\ Len(calls) = 2
    /\ Len(calls[1]) = MaxBatchRecords
    /\ Len(calls[2]) = 1

\* The line the step has read, when it has read one.
ReadsLine == pc = "read" /\ Len(lines') = Len(lines) + 1

\* C5: a line is skipped (the diagnostic with its ordinal is printed and it
\* enters no batch) exactly when it is longer than 1 MiB; the skip issues no
\* write call, leaves the pending batch and num_bytes as they are, and push
\* goes on reading.
C5_SkipIffOversized ==
    [][ReadsLine =>
        LET l == lines'[Len(lines')] IN
          /\ (stdout' = Append(stdout, SkipDiagnostic(l.ord))) <=> (l.len > ONE_MIB)
          /\ (stdout' = stdout) <=> (l.len <= ONE_MIB)
          /\ l.len > ONE_MIB
               => /\ UNCHANGED <<records, num_bytes, calls, results>>
                  /\ pc' = "read"
          /\ l.len <= ONE_MIB
               => \/ records' = Append(records, l)
                  \/ calls' = Append(calls, Append(records, l))
                  \/ line' = Some(l)]_vars

\* A line of 1 MiB + 1 was skipped while a line of exactly 1 MiB was
\* pending, and the pending batch is still there.
C5_Witness ==
    /\ pc = "read"
    /\ Len(lines) >= 2
    /\ lines[Len(lines)].len = ONE_MIB + 1
    /\ stdout # <<>>
    /\ stdout[Len(stdout)] = SkipDiagnostic(Len(lines))
    /\ records # <<>>
    /\ records[Len(records)].len = ONE_MIB

\* C6: at end of input push issues one more write call, carrying the pending
\* batch, exactly when that batch is non-empty; when that call succeeds, or
\* when there was nothing pending, push returns Ok; and then no accepted
\* line is left undispatched.
C6_FinalFlush ==
    [][/\ (pc = "read" /\ pc' \in {"final_flush", "done"})
          => IF records # <<>>
             THEN /\ pc' = "final_flush"
                  /\ calls' = Append(calls, records)
             ELSE /\ pc' = "done"
                  /\ calls' = calls
       /\ (pc = "final_flush" /\ results' = Append(results, "ok"))
          => (pc' = "done" /\ calls' = calls)
       /\ pc' = "done"
          => /\ records' = <<>>
             /\ err' = None
             /\ \A i \in DOMAIN lines' :
                  lines'[i].len <= ONE_MIB
                    => \E j \in DOMAIN calls', k \in 1..MaxBatchRecords :
                         k <= Len(calls'[j]) /\ calls'[j][k] = lines'[i]]_vars

\* push returned Ok after a final flush of a partial batch.
C6_Witness ==
    /\ pc = "done"
    /\ Len(lines) = 2
    /\ calls = <<lines>>
    /\ results = <<"ok">>

WriteFailed == \E i \in DOMAIN results : results[i] = "err"

\* C7: once a write call has failed push has returned that error: the failed
\* call is the last one issued, nothing is read, written or printed after
\* it, and no summary is printed.
C7_WriteErrorIsFatal ==
    [][/\ WriteFailed => UNCHANGED vars
       /\ WriteFailed'
          => /\ pc' = "failed"
             /\ err' = Some("put_records")
             /\ Len(results') = Len(calls')
             /\ \A i \in DOMAIN results' : results'[i] = "err" => i = Len(calls')
             /\ UNCHANGED <<lines, calls, records, stdout, num_records>>
             /\ \A i \in DOMAIN stdout' : stdout'[i].kind # "summary"]_vars

\* The second write call failed with records of a later line still pending
\* in the program.
C7_Witness ==
    /\ pc = "failed"
    /\ results = <<"ok", "err">>
    /\ Len(calls) = 2
    /\ IsSome(line)

----------------------------------------------------------------------------
(* tail                                                                    *)

\* Result<T, E>
Ok(x) == <<"Ok", x>>

Err(e) == <<"Err", e>>

IsOk(r) == r[1] = "Ok"

\* The two calls tail sends: get_shard_iterator() and
\* get_records().shard_iterator(shard_iterator).
GetShardIterator == <<"get_shard_iterator">>

GetRecords(shard_iterator) == <<"get_records", shard_iterator>>

\* A record of the shard; data() is its payload, an Option<Blob>.
Record(data) == [data |-> data]

\* GetRecordsOutput: the fields tail reads.
GetRecordsOutput(recs, next) == [records |-> recs, next_shard_iterator |-> next]

\* "Record payload is empty." as the bytes of the &str
PLACEHOLDER ==
    <<82, 101, 99, 111, 114, 100, 32, 112, 97, 121, 108, 111, 97, 100, 32, 105, 115, 32, 101, 109, 112, 116, 121, 46>>

\* std::str::from_utf8 accepts exactly the well-formed UTF-8 byte sequences
\* (the Unicode standard's table 3-7); the &str it returns is those bytes.
RECURSIVE Utf8ValidFrom(_, _)
Utf8ValidFrom(b, i) ==
    IF i > Len(b) THEN TRUE
    ELSE LET c == b[i]
             In(j, lo, hi) == j <= Len(b) /\ b[j] >= lo /\ b[j] <= hi
             Cont(j) == In(j, 128, 191)
         IN  IF c < 128 THEN Utf8ValidFrom(b, i + 1)
             ELSE IF c >= 194 /\ c <= 223
             THEN Cont(i + 1) /\ Utf8ValidFrom(b, i + 2)
             ELSE IF c = 224
             THEN In(i + 1, 160, 191) /\ Cont(i + 2) /\ Utf8ValidFrom(b, i + 3)
             ELSE IF (c >= 225 /\ c <= 236) \/ c = 238 \/ c = 239
             THEN Cont(i + 1) /\ Cont(i + 2) /\ Utf8ValidFrom(b, i + 3)
             ELSE IF c = 237
             THEN In(i + 1, 128, 159) /\ Cont(i + 2) /\ Utf8ValidFrom(b, i + 3)
             ELSE IF c = 240
             THEN /\ In(i + 1, 144, 191) /\ Cont(i + 2) /\ Cont(i + 3)
                  /\ Utf8ValidFrom(b, i + 4)
             ELSE IF c >= 241 /\ c <= 243
             THEN /\ Cont(i + 1) /\ Cont(i + 2) /\ Cont(i + 3)
                  /\ Utf8ValidFrom(b, i + 4)
             ELSE IF c = 244
             THEN /\ In(i + 1, 128, 143) /\ Cont(i + 2) /\ Cont(i + 3)
                  /\ Utf8ValidFrom(b, i + 4)
             ELSE FALSE

from_utf8(b) == IF Utf8ValidFrom(b, 1) THEN Ok(b) ELSE Err("utf8")

\* record.data().map(|blob| std::str::from_utf8(blob.as_ref())).transpose()
\* followed by `?` and .unwrap_or("Record payload is empty."): the line to
\* print, or the error tail returns.
DecodeLine(record) ==
    IF IsSome(record.data)
    THEN from_utf8(Unwrap(record.data))
    ELSE Ok(PLACEHOLDER)

PrintRecords_AllOrNothing(recs, printed) ==
    IF \A k \in 1..Len(recs) : IsOk(DecodeLine(recs[k]))
    THEN [printed |-> printed \o [k \in 1..Len(recs) |-> DecodeLine(recs[k])[2]],
          failed |-> FALSE]
    ELSE [printed |-> printed, failed |-> TRUE]

RECURSIVE PrintRecords_SkipsBad(_, _)
PrintRecords_SkipsBad(recs, printed) ==
    IF recs = <<>> THEN [printed |-> printed, failed |-> FALSE]
    ELSE LET l == DecodeLine(Head(recs)) IN
           IF IsOk(l)
           THEN PrintRecords_SkipsBad(Tail(recs), Append(printed, l[2]))
           ELSE PrintRecords_SkipsBad(Tail(recs), printed)

RECURSIVE PrintRecords_Reversed(_, _)
PrintRecords_Reversed(recs, printed) ==
    IF recs = <<>> THEN [printed |-> printed, failed |-> FALSE]
    ELSE LET l == DecodeLine(Head(recs)) IN
           IF IsOk(l)
           THEN PrintRecords_Reversed(Tail(recs), <<l[2]>> \o printed)
           ELSE [printed |-> printed, failed |-> TRUE]

\* for record in records { ...?; println!("{}", line); }: the lines printed
\* and whether the loop was left by `?`.
RECURSIVE PrintRecords(_, _)
PrintRecords(recs, printed) ==
    IF recs = <<>> THEN [printed |-> printed, failed |-> FALSE]
    ELSE LET l == DecodeLine(Head(recs)) IN
           IF IsOk(l)
           THEN PrintRecords(Tail(recs), Append(printed, l[2]))
           ELSE [printed |-> printed, failed |-> TRUE]

\* The sequences of at most n records the shard can deliver.
RecordSeqs(n) ==
    UNION {[1..k -> {Record(d) : d \in RecordData}] : k \in 0..n}

\* The records the shard has delivered so far.
Delivered ==
    LET Count(i) == IF /\ requests[i][1] = "get_records"
                       /\ IsOk(replies[i])
                       /\ IsSome(replies[i][2].records)
                    THEN Len(Unwrap(replies[i][2].records)) ELSE 0
        RECURSIVE Sum(_)
        Sum(i) == IF i = 0 THEN 0 ELSE Sum(i - 1) + Count(i)
    IN  Sum(Len(replies))

InitTail ==
    /\ pc = "positioning"
    /\ err = None
    /\ stdout = <<>>
    /\ lines = <<>>
    /\ line = None
    /\ num_bytes = 0
    /\ num_records = 0
    /\ records = <<>>
    /\ calls = <<>>
    /\ results = <<>>
    /\ shard_iterator_opt = None
    /\ requests = <<GetShardIterator>>
    /\ replies = <<>>
    /\ reply = None

\* The shard iterator the service issues next: a token it has not issued.
FreshIterator == Len(requests)

\* The service answers get_shard_iterator: an iterator, none, or an error.
GetShardIteratorReply(r) ==
    /\ pc = "positioning"
    /\ reply = None
    /\ reply' = Some(r)
    /\ replies' = Append(replies, r)
    /\ UNCHANGED <<pc, err, stdout, pushVars, shard_iterator_opt, requests>>

Positioned_NoneIsError ==
    /\ pc = "positioning"
    /\ IsSome(reply)
    /\ reply' = None
    /\ LET r == Unwrap(reply) IN
         IF IsOk(r) /\ IsSome(r[2])
         THEN /\ shard_iterator_opt' = r[2]
              /\ pc' = "tick"
              /\ err' = err
         ELSE /\ pc' = "failed"
              /\ err' = Some("get_shard_iterator")
              /\ shard_iterator_opt' = shard_iterator_opt
    /\ UNCHANGED <<stdout, pushVars, requests, replies>>

Positioned_Retries ==
    /\ pc = "positioning"
    /\ IsSome(reply)
    /\ reply' = None
    /\ LET r == Unwrap(reply) IN
         IF IsOk(r)
         THEN /\ shard_iterator_opt' = r[2]
              /\ pc' = IF IsSome(r[2]) THEN "tick" ELSE "done"
              /\ UNCHANGED <<err, requests>>
         ELSE /\ requests' = Append(requests, GetShardIterator)
              /\ UNCHANGED <<pc, err, shard_iterator_opt>>
    /\ UNCHANGED <<stdout, pushVars, replies>>

\* Lines 114-125: `.await?.shard_iterator`, then the loop's first test.
Positioned ==
    /\ pc = "positioning"
    /\ IsSome(reply)
    /\ reply' = None
    /\ LET r == Unwrap(reply) IN
         IF IsOk(r)
         THEN /\ shard_iterator_opt' = r[2]
              /\ pc' = IF IsSome(r[2]) THEN "tick" ELSE "done"
              /\ err' = err
         ELSE /\ pc' = "failed"
              /\ err' = Some(r[2])
              /\ shard_iterator_opt' = shard_iterator_opt
    /\ UNCHANGED <<stdout, pushVars, requests, replies>>

\* Lines 126-131: interval.tick().await, then get_records is sent with the
\* iterator bound by `while let Some(shard_iterator)`.
Tick ==
    /\ pc = "tick"
    /\ requests' = Append(requests, GetRecords(Unwrap(shard_iterator_opt)))
    /\ pc' = "polling"
    /\ UNCHANGED <<err, stdout, pushVars, shard_iterator_opt, replies, reply>>

GetRecordsFailed_Retry(e) ==
    /\ pc' = "tick"
    /\ UNCHANGED <<err, stdout, shard_iterator_opt>>

\* The `?` of line 132: a failed get_records makes tail return the error.
GetRecordsFailed(e) ==
    /\ pc' = "failed"
    /\ err' = Some(e)
    /\ UNCHANGED <<stdout, shard_iterator_opt>>

\* The replies the service can give to the outstanding get_records call.
GetRecordsReplies ==
    LET budget == MaxShardRecords - Delivered
        nexts == {None} \cup
                 (IF Len(requests) - 1 < MaxPolls THEN {Some(FreshIterator)} ELSE {})
        recs == {None} \cup {Some(rs) : rs \in RecordSeqs(budget)}
    IN  {Err("get_records")} \cup
        {Ok(GetRecordsOutput(rs, n)) : rs \in recs, n \in nexts}

\* The service answers get_records.
GetRecordsReply(r) ==
    /\ pc = "polling"
    /\ reply = None
    /\ reply' = Some(r)
    /\ replies' = Append(replies, r)
    /\ UNCHANGED <<pc, err, stdout, pushVars, shard_iterator_opt, requests>>

Polled_KeepsIterator ==
    /\ pc = "polling"
    /\ IsSome(reply)
    /\ reply' = None
    /\ LET r == Unwrap(reply) IN
         IF IsOk(r)
         THEN LET output == r[2]
                  p == IF IsSome(output.records)
                       THEN PrintRecords(Unwrap(output.records), <<>>)
                       ELSE [printed |-> <<>>, failed |-> FALSE]
              IN  /\ stdout' = stdout \o p.printed
                  /\ IF p.failed
                     THEN /\ pc' = "failed"
                          /\ err' = Some("utf8")
                          /\ shard_iterator_opt' = shard_iterator_opt
                     ELSE /\ shard_iterator_opt' =
                               IF IsSome(output.next_shard_iterator)
                               THEN shard_iterator_opt ELSE None
                          /\ pc' = IF IsSome(output.next_shard_iterator)
                                   THEN "tick" ELSE "done"
                          /\ err' = err
         ELSE GetRecordsFailed(r[2])
    /\ UNCHANGED <<pushVars, requests, replies>>

Polled_StopsWithoutRecords ==
    /\ pc = "polling"
    /\ IsSome(reply)
    /\ reply' = None
    /\ LET r == Unwrap(reply) IN
         IF IsOk(r)
         THEN LET output == r[2]
                  p == IF IsSome(output.records)
                       THEN PrintRecords(Unwrap(output.records), <<>>)
                       ELSE [printed |-> <<>>, failed |-> FALSE]
              IN  /\ stdout' = stdout \o p.printed
                  /\ IF p.failed
                     THEN /\ pc' = "failed"
                          /\ err' = Some("utf8")
                          /\ shard_iterator_opt' = shard_iterator_opt
                     ELSE /\ shard_iterator_opt' = output.next_shard_iterator
                          /\ pc' = IF /\ IsSome(output.next_shard_iterator)
                                      /\ p.printed # <<>>
                                   THEN "tick" ELSE "done"
                          /\ err' = err
         ELSE GetRecordsFailed(r[2])
    /\ UNCHANGED <<pushVars, requests, replies>>

\* Lines 132-145 and the loop's test at 125: `.await?`, the records are
\* decoded and printed, the iterator is replaced.
Polled ==
    /\ pc = "polling"
    /\ IsSome(reply)
    /\ reply' = None
    /\ LET r == Unwrap(reply) IN
         IF IsOk(r)
         THEN LET output == r[2]
                  p == IF IsSome(output.records)
                       THEN PrintRecords(Unwrap(output.records), <<>>)
                       ELSE [printed |-> <<>>, failed |-> FALSE]
              IN  /\ stdout' = stdout \o p.printed
                  /\ IF p.failed
                     THEN /\ pc' = "failed"
                          /\ err' = Some("utf8")
                          /\ shard_iterator_opt' = shard_iterator_opt
                     ELSE /\ shard_iterator_opt' = output.next_shard_iterator
                          /\ pc' = IF IsSome(output.next_shard_iterator)
                                   THEN "tick" ELSE "done"
                          /\ err' = err
         ELSE GetRecordsFailed(r[2])
    /\ UNCHANGED <<pushVars, requests, replies>>

NextTail ==
    \/ \E r \in {Ok(Some(FreshIterator)), Ok(None), Err("get_shard_iterator")} :
           GetShardIteratorReply(r)
    \/ Positioned
    \/ Tick
    \/ \E r \in GetRecordsReplies : GetRecordsReply(r)
    \/ Polled

SpecTail == InitTail /\ [][NextTail]_vars

\* The program's own steps are taken when they can be: the runtime resumes
\* tail when the tick or the awaited reply is there.
FairTail == SpecTail /\ WF_vars(Positioned) /\ WF_vars(Tick) /\ WF_vars(Polled)

----------------------------------------------------------------------------
(* Properties of tail.                                                     *)

\* The get_records results received so far are replies[2..]: replies[1]
\* answers get_shard_iterator.
PollReplies == 2..Len(replies)

\* The text of a record: its payload, or the placeholder without payload.
TextOf(record) ==
    IF IsSome(record.data) THEN Unwrap(record.data) ELSE PLACEHOLDER

\* The records of a successful get_records result, in order.
RecordsOf(r) == IF IsSome(r[2].records) THEN Unwrap(r[2].records) ELSE <<>>

\* The payloads that are UTF-8 text, among those the shard delivers.
Decodable(record) == record.data \in {None, Some(<<>>), Some(<<195, 169>>)}

\* The texts of the records of replies[2..n], in the order received.
RECURSIVE TextsUpTo(_)
TextsUpTo(n) ==
    IF n < 2 THEN <<>>
    ELSE TextsUpTo(n - 1) \o
         [k \in 1..Len(RecordsOf(replies[n])) |-> TextOf(RecordsOf(replies[n])[k])]

\* Every poll so far succeeded with decodable records only.
AllPollsDecodable ==
    \A i \in PollReplies :
        /\ IsOk(replies[i])
        /\ \A k \in 1..Len(RecordsOf(replies[i])) : Decodable(RecordsOf(replies[i])[k])

\* C8: when every poll succeeded with decodable records and the last one
\* returned no next iterator, then, once tail has taken that result, it has
\* printed exactly the texts of all returned records in the order received,
\* has sent no call after it, and has returned Ok.
C8_DrainedEmitsAll ==
    (/\ Len(replies) >= 2
     /\ IsOk(replies[1])
     /\ AllPollsDecodable
     /\ replies[Len(replies)][2].next_shard_iterator = None
     /\ reply = None)
    => /\ pc = "done"
       /\ err = None
       /\ stdout = TextsUpTo(Len(replies))
       /\ Len(requests) = Len(replies)

\* tail returned Ok after two polls that both returned records.
C8_Witness ==
    /\ pc = "done"
    /\ Len(replies) = 3
    /\ Len(RecordsOf(replies[2])) = 1
    /\ Len(RecordsOf(replies[3])) = 2
    /\ RecordsOf(replies[3])[1] # RecordsOf(replies[3])[2]
    /\ Len(stdout) = 3

PollFailed == \E i \in PollReplies : ~IsOk(replies[i])

\* C9: once a get_records call has failed it is the last call tail has sent
\* (no retry, no further poll), what is printed is and stays exactly the
\* texts of the records of the earlier polls, and the step that takes the
\* failure makes tail return that error, after which nothing happens.
C9_PollErrorIsFatal ==
    [][/\ (PollFailed /\ reply = None) => UNCHANGED vars
       /\ PollFailed'
          => /\ ~IsOk(replies'[Len(replies')])
             /\ \A i \in 2..(Len(replies') - 1) : IsOk(replies'[i])
             /\ Len(requests') = Len(replies')
             /\ stdout' = stdout
             /\ (\A i \in 2..(Len(replies') - 1) :
                   \A k \in 1..Len(RecordsOf(replies'[i])) :
                      Decodable(RecordsOf(replies'[i])[k]))
                => stdout' = TextsUpTo(Len(replies) - (IF PollFailed THEN 1 ELSE 0))
             /\ reply' = None
                => /\ pc' = "failed"
                   /\ err' = Some(replies'[Len(replies')][2])]_vars

\* The third poll failed after two polls whose records were printed.
C9_Witness ==
    /\ pc = "failed"
    /\ err = Some("get_records")
    /\ Len(requests) = 4
    /\ Len(replies) = 4
    /\ Len(stdout) >= 2
    /\ RecordsOf(replies[2]) # <<>>
    /\ RecordsOf(replies[3]) # <<>>

\* The result tail is about to take lets the loop go on with iterator it:
\* the call succeeded, all records decode, the next iterator is Some(it).
ReplyContinues(it) ==
    /\ pc = "polling"
    /\ IsSome(reply)
    /\ IsOk(Unwrap(reply))
    /\ \A k \in 1..Len(RecordsOf(Unwrap(reply))) :
          Decodable(RecordsOf(Unwrap(reply))[k])
    /\ Unwrap(reply)[2].next_shard_iterator = Some(it)

\* The result tail is about to take ends the shard or is an error.
ReplyEnds ==
    /\ pc = "polling"
    /\ IsSome(reply)
    /\ \/ ~IsOk(Unwrap(reply))
       \/ Unwrap(reply)[2].next_shard_iterator = None

Polls == {i \in DOMAIN requests : requests[i][1] = "get_records"}

\* C10: tail returns Ok only when the last iterator it was given is absent
\* and returns Err only when a call or the decoding failed; a successful,
\* decodable result with a next iterator is always followed by a poll with
\* that iterator; a result without next iterator, or a failed one, is always
\* followed by tail returning.
C10_StopsOnlyDrainedOrFailed ==
    /\ [](pc = "done"
            => /\ shard_iterator_opt = None
               /\ IsOk(replies[Len(replies)])
               /\ \/ Len(replies) = 1 /\ replies[1][2] = None
                  \/ Len(replies) > 1
                       /\ replies[Len(replies)][2].next_shard_iterator = None)
    /\ [](pc = "failed"
            => /\ IsSome(err)
               /\ \/ ~IsOk(replies[Len(replies)])
                  \/ Len(replies) > 1 /\ ~AllPollsDecodable)
    /\ \A it \in 1..(MaxPolls + 1) :
          ReplyContinues(it) ~> (\E i \in Polls : requests[i] = GetRecords(it))
    /\ ReplyEnds ~> (pc \in {"done", "failed"})

\* tail has polled as often as the service lets it and then returned Ok.
C10_Witness ==
    /\ pc = "done"
    /\ Cardinality(Polls) = MaxPolls
    /\ \A i \in PollReplies : RecordsOf(replies[i]) = <<>>

\* The i-th result is a successful poll with a record that is not UTF-8.
HasUndecodable(i) ==
    /\ IsOk(replies[i])
    /\ \E k \in 1..Len(RecordsOf(replies[i])) : ~Decodable(RecordsOf(replies[i])[k])

\* The position of the first record of recs that is not UTF-8.
FirstUndecodable(recs) ==
    CHOOSE k \in 1..Len(recs) :
        ~Decodable(recs[k]) /\ \A j \in 1..(k - 1) : Decodable(recs[j])

\* tail has taken a poll result with a record that is not UTF-8.
UndecodableTaken == reply = None /\ \E i \in PollReplies : HasUndecodable(i)

\* tail has returned the decode error at the first undecodable record: that
\* result is the last one, no call was sent after it, and as many lines are
\* printed as there are records before that record.
StoppedAtUndecodable ==
    /\ pc = "failed"
    /\ err = Some("utf8")
    /\ HasUndecodable(Len(replies))
    /\ \A i \in 2..(Len(replies) - 1) : ~HasUndecodable(i)
    /\ Len(requests) = Len(replies)
    /\ Len(stdout) = Len(TextsUpTo(Len(replies) - 1))
                       + FirstUndecodable(RecordsOf(replies[Len(replies)])) - 1

\* C11: when tail takes a poll result with a record that is not valid UTF-8
\* it returns the decode error: the record is not skipped, no record after
\* it is printed, no further call is sent, and nothing happens afterwards.
C11_DecodeErrorIsFatal ==
    [][/\ UndecodableTaken => UNCHANGED vars
       /\ UndecodableTaken' => StoppedAtUndecodable']_vars

\* tail failed on an undecodable record that had a decodable record after
\* it in the same result, in the second poll.
C11_Witness ==
    /\ pc = "failed"
    /\ err = Some("utf8")
    /\ Len(replies) = 3
    /\ Len(RecordsOf(replies[3])) = 2
    /\ ~Decodable(RecordsOf(replies[3])[1])
    /\ Decodable(RecordsOf(replies[3])[2])
    /\ IsSome(replies[3][2].next_shard_iterator)

\* The line claimed for a record: the placeholder when the payload has no
\* bytes, the payload otherwise.
ClaimedTextOf(record) ==
    IF record.data = None \/ record.data = Some(<<>>)
    THEN PLACEHOLDER
    ELSE Unwrap(record.data)

RECURSIVE ClaimedTextsUpTo(_)
ClaimedTextsUpTo(n) ==
    IF n < 2 THEN <<>>
    ELSE ClaimedTextsUpTo(n - 1) \o
         [k \in 1..Len(RecordsOf(replies[n])) |->
            ClaimedTextOf(RecordsOf(replies[n])[k])]

\* C12 as claimed: every record with a payload of zero bytes that tail has
\* taken is printed as the placeholder text, not as an empty line, and tail
\* has not failed on it.
C12_EmptyPayloadIsPlaceholder ==
    (AllPollsDecodable /\ reply = None /\ Len(replies) >= 2)
    => /\ stdout = ClaimedTextsUpTo(Len(replies))
       /\ pc # "failed"

\* The shard iterator the i-th result carries: the shard_iterator of the
\* positioning result, the next_shard_iterator of a poll result.
IteratorOf(i) ==
    IF i = 1 THEN replies[1][2] ELSE replies[i][2].next_shard_iterator

\* C14: every get_records call carries the iterator returned by the call
\* just before it, which succeeded, and no two get_records calls carry the
\* same iterator.
C14_IteratorHandOff ==
    \A i \in Polls :
        /\ i - 1 \in DOMAIN replies
        /\ IsOk(replies[i - 1])
        /\ IteratorOf(i - 1) = Some(requests[i][2])
        /\ \A j \in Polls : j # i => requests[j][2] # requests[i][2]

\* Three polls have been sent, each with the iterator of the result before.
C14_Witness ==
    /\ Cardinality(Polls) = 3
    /\ Len(replies) = 4
    /\ IsOk(replies[4])
    /\ requests[4] = GetRecords(Unwrap(IteratorOf(3)))

\* C15: the first call tail sends is get_shard_iterator and every later call
\* is a get_records; when the positioning call has failed, tail has returned
\* the error having sent no poll and printed no line.
C15_PositionedOnce ==
    /\ requests # <<>>
    /\ requests[1] = GetShardIterator
    /\ \A i \in 2..Len(requests) : requests[i][1] = "get_records"
    /\ (Len(replies) >= 1 /\ ~IsOk(replies[1]) /\ reply = None)
       => /\ pc = "failed"
          /\ err = Some(replies[1][2])
          /\ Len(requests) = 1
          /\ Len(replies) = 1
          /\ stdout = <<>>

\* The positioning call failed and tail returned its error.
C15_Witness ==
    /\ pc = "failed"
    /\ replies = <<Err("get_shard_iterator")>>
    /\ reply = None
    /\ err = Some("get_shard_iterator")

\* C19: when the positioning call has succeeded without a shard iterator,
\* tail has returned Ok having sent no get_records and printed no line.
C19_NoIteratorNoPoll ==
    (Len(replies) >= 1 /\ replies[1] = Ok(None) /\ reply = None)
    => /\ pc = "done"
       /\ err = None
       /\ requests = <<GetShardIterator>>
       /\ Len(replies) = 1
       /\ stdout = <<>>

\* The positioning call returned no iterator and tail returned Ok.
C19_Witness ==
    /\ pc = "done"
    /\ replies = <<Ok(None)>>
    /\ reply = None
    /\ shard_iterator_opt = None

\* The first result with a record that is not UTF-8.
FirstBadReply ==
    CHOOSE i \in PollReplies :
        HasUndecodable(i) /\ \A j \in 2..(i - 1) : ~HasUndecodable(j)

\* C20: once tail has taken a result with an undecodable record, what it
\* has printed is the texts of the records of the earlier results followed
\* by the texts of the records before the undecodable one, in order, and
\* nothing of what follows it; the next iterator of that result is neither
\* held by tail nor carried by any call.
C20_PrefixPrintedIteratorDropped ==
    UndecodableTaken
    => LET n == FirstBadReply
           recs == RecordsOf(replies[n])
           k == FirstUndecodable(recs)
           next == replies[n][2].next_shard_iterator
       IN  /\ stdout = TextsUpTo(n - 1) \o [j \in 1..(k - 1) |-> TextOf(recs[j])]
           /\ IsSome(next)
              => /\ shard_iterator_opt # next
                 /\ \A i \in Polls : requests[i] # GetRecords(Unwrap(next))

\* tail failed on the second of three records of a result that carried a
\* next iterator: the first is printed, the third is not.
C20_Witness ==
    /\ pc = "failed"
    /\ err = Some("utf8")
    /\ Len(replies) = 2
    /\ Len(RecordsOf(replies[2])) = 3
    /\ Decodable(RecordsOf(replies[2])[1])
    /\ ~Decodable(RecordsOf(replies[2])[2])
    /\ Decodable(RecordsOf(replies[2])[3])
    /\ IsSome(replies[2][2].next_shard_iterator)
    /\ stdout = <<TextOf(RecordsOf(replies[2])[1])>>

----------------------------------------------------------------------------
(* Further properties of push.                                             *)

\* C13 as claimed: when push has returned Ok, the number in the summary it
\* printed last is the number of records in all dispatched batches.
C13_SummaryCountsPushed ==
    pc = "done"
    => /\ stdout # <<>>
       /\ stdout[Len(stdout)] = Summary(Len(Flatten(calls)))

\* The put_records calls that have not returned.
Outstanding == Len(calls) - Len(results)

\* The lines of s are in input order.
InInputOrder(s) ==
    \A i \in DOMAIN s : \A j \in DOMAIN s : i < j => s[i].ord < s[j].ord

\* C16: at most one put_records call is outstanding; while one is, no line
\* is read and the pending batch changes only in the step in which the call
\* returns; the dispatched batches, followed by the pending one, hold the
\* lines in input order.
C16_OneWriteAtATime ==
    [][/\ Outstanding' \in {0, 1}
       /\ Outstanding = 1
          => /\ lines' = lines
             /\ results' = results => records' = records
       /\ InInputOrder(Flatten(calls') \o records')]_vars

\* A second write call is outstanding after the first has returned.
C16_Witness ==
    /\ pc = "byte_flush"
    /\ Len(calls) = 2
    /\ Len(results) = 1
    /\ Outstanding = 1

\* C18: no batch passed to put_records is empty, and the processing of one
\* line passes at most one batch: a step passes at most one, and the
\* continuation after a byte-ceiling flush passes none.
C18_NoEmptyBatch ==
    [][/\ \A i \in DOMAIN calls' : calls'[i] # <<>>
       /\ Len(calls') <= Len(calls) + 1
       /\ pc = "byte_flush" => calls' = calls]_vars

\* push returned Ok after a byte-ceiling flush of five records, a second
\* byte-ceiling flush and the final flush.
C18_Witness ==
    /\ pc = "done"
    /\ Len(calls) = 3
    /\ Len(calls[1]) = 5
    /\ Len(calls[2]) = 1
    /\ Len(calls[3]) = 1

----------------------------------------------------------------------------
(* The partition key of push: lines 190-194 applied to lines whose 64-bit  *)
(* hashes are made explicit.  A u64 is four limbs of 16 bits, the most     *)
(* significant first.                                                      *)

\* The number of lines whose entries are built.
MaxKeyLines == 2

\* The values seahash::hash returns for the lines of the model: 0, 2^60 - 1,
\* 2^60, 2^64 - 1 and values with 1, 2, 4, 5, 8, 11, 12 and 13 digits.
Hashes ==
    { <<0, 0, 0, 0>>, <<0, 0, 0, 10>>, <<0, 0, 0, 16>>, <<0, 0, 0, 65535>>,
      <<0, 0, 1, 0>>, <<0, 0, 43981, 4660>>, <<0, 256, 0, 0>>,
      <<0, 65535, 65535, 65535>>, <<15, 0, 0, 1>>,
      <<4095, 65535, 65535, 65535>>, <<4096, 0, 0, 0>>,
      <<65535, 65535, 65535, 65535>> }

\* A line of standard input together with the hash of its bytes.
HashedLine(ord, len, hash) == [ord |-> ord, len |-> len, hash |-> hash]

\* x / 16 and x == 0 on a u64
Shr4(x) ==
    [i \in 1..4 |->
        (x[i] \div 16) + (IF i > 1 THEN (x[i - 1] % 16) * 4096 ELSE 0)]

IsZero(x) == \A i \in 1..4 : x[i] = 0

HEX_DIGITS ==
    <<"0", "1", "2", "3", "4", "5", "6", "7", "8", "9", "a", "b", "c", "d", "e", "f">>

LowerHex_Padded(x) ==
    LET Limb(l) == << HEX_DIGITS[(l \div 4096) + 1], HEX_DIGITS[((l \div 256) % 16) + 1],
                      HEX_DIGITS[((l \div 16) % 16) + 1], HEX_DIGITS[(l % 16) + 1] >>
    IN  Limb(x[1]) \o Limb(x[2]) \o Limb(x[3]) \o Limb(x[4])

\* format!("{:x}", x): the digits of x in base 16, the least significant
\* computed first, until the quotient is zero; no width, no fill.
RECURSIVE LowerHex(_)
LowerHex(x) ==
    LET digit == HEX_DIGITS[(x[4] % 16) + 1]
        rest == Shr4(x)
    IN  IF IsZero(rest) THEN <<digit>> ELSE Append(LowerHex(rest), digit)

\* PutRecordsRequestEntry::builder().partition_key(..).data(..).build()
Entry(l) == [partition_key |-> LowerHex(l.hash), data |-> l]

InitKey ==
    /\ pc = "build"
    /\ err = None
    /\ stdout = <<>>
    /\ lines = <<>>
    /\ line = None
    /\ num_bytes = 0
    /\ num_records = 0
    /\ records = <<>>
    /\ calls = <<>>
    /\ results = <<>>
    /\ shard_iterator_opt = None
    /\ requests = <<>>
    /\ replies = <<>>
    /\ reply = None

\* Lines 172-173 and 190-194 for a line of one byte whose hash is hash: the
\* line is read, its entry is built and pushed.
BuildEntry(hash) ==
    /\ pc = "build"
    /\ Len(lines) < MaxKeyLines
    /\ LET l == HashedLine(Len(lines) + 1, 1, hash) IN
         /\ lines' = Append(lines, l)
         /\ records' = Append(records, Entry(l))
    /\ UNCHANGED <<pc, err, stdout, line, num_bytes, num_records, calls,
                   results, tailVars>>

NextKey == \E hash \in Hashes : BuildEntry(hash)

SpecKey == InitKey /\ [][NextKey]_vars

\* The 16 hexadecimal digits of a u64, the most significant first.
Nibbles(x) ==
    [k \in 1..16 |->
        LET l == x[((k - 1) \div 4) + 1]
            p == (k - 1) % 4
        IN  IF p = 0 THEN l \div 4096
            ELSE IF p = 1 THEN (l \div 256) % 16
            ELSE IF p = 2 THEN (l \div 16) % 16
            ELSE l % 16]

\* The number of zero digits before the first non-zero digit, at most 15,
\* of the 16 digits n.
LeadingZeros(n) ==
    IF \A k \in 1..16 : n[k] = 0 THEN 15
    ELSE (CHOOSE k \in 1..16 : n[k] # 0 /\ \A j \in 1..(k - 1) : n[j] = 0) - 1

\* C17 as claimed: the partition keys of any two records have the same
\* number of characters.
C17_FixedWidthKey ==
    \A i \in DOMAIN records : \A j \in DOMAIN records :
        Len(records[i].partition_key) = Len(records[j].partition_key)

\* C17 as amended: the partition key is the hexadecimal digits of the hash
\* without its leading zeros, so it has 16 characters less the number of
\* leading zero digits of the hash (at least one character).
C17_KeyIsHexWithoutLeadingZeros ==
    \A i \in DOMAIN records :
        LET key == records[i].partition_key
            n == Nibbles(records[i].data.hash)
            z == LeadingZeros(n)
        IN  /\ Len(key) = 16 - z
            /\ \A k \in 1..Len(key) : key[k] = HEX_DIGITS[n[z + k] + 1]

\* Two entries are built, one for a hash with 16 digits and one for a hash
\* with a single digit.
C17_Witness ==
    /\ Len(records) = 2
    /\ Len(records[1].partition_key) = 16
    /\ Len(records[2].partition_key) = 1

====
